---- MODULE Spec2Model ----
(***************************************************************************)
(* The wake-word listener of dmweis/wakeword: Listener::listener_loop      *)
(* (src/src/listener.rs), the supervisor thread and the channel consumers  *)
(* of main (src/src/main.rs), and AudioBuffer (src/src/wakeword_validation.rs). *)
(* The indicator thread of start_respeaker_loop (src/src/respeaker.rs)     *)
(* takes the commands of the listener from a bounded queue.                *)
(*                                                                         *)
(* Time is counted in whole seconds.  Instants (std::time::Instant) are    *)
(* values of `clock`; wall-clock timestamps (chrono::Utc::now) are         *)
(* clock - wallSkew, so that a backward adjustment of the system clock is  *)
(* a state the model can reach.  A frame is named by its sequence number.  *)
(***************************************************************************)
EXTENDS Integers, Sequences, FiniteSets, TLC

\* ---------------------------------------------------------------- bounds
MaxFrames == 3
MaxTime == 6
MaxBlock == 3
EventCap == 1
SampleCap == 1
CommandCap == 1
MaxSkew == 4

\* ------------------------------------------------------ program constants
HUMAN_SPEECH_DETECTION_TIMEOUT == 3
HUMAN_SPEECH_DETECTION_PROBABILITY_THRESHOLD == 50
RECORDING_INITIAL_TIMEOUT == 3
AUDIO_SAMPLE_RETENTION_PERIOD == 5

\* Listener::selected_keywords: the keyword binding table, index-addressed.
selected_keywords == <<"jarvis", "stop">>

\* Indices porcupine.process may return: -1 for no keyword, an index of the
\* table, and one past its end.
NoIndex == -1
PorcupineIndices == NoIndex..Len(selected_keywords)

\* PicovoiceConfig::dismiss_keyword is an Option<String>.
NoKeyword == "(none)"
DismissChoices == {NoKeyword, "stop"}

\* Cobra's probability, in percent (0.5 is 50).
VoiceProbabilities == {50, 51}

VARIABLES
    \* Listener fields
    recording_status, audio_buffer, last_human_speech_detected,
    wake_word_buffer, dismiss_keyword,
    \* shared with other threads
    privacy_mode_flag, audio_detector_data, detector_closed,
    audio_sample_sender, sample_closed,
    \* locals of listener_loop and the position in it
    pc, ts_now, instant_now, audio_frame,
    \* the index porcupine reported for the frame of this iteration, NoIndex
    \* before detect_wake_word has it
    keyword_index,
    \* the environment
    clock, wallSkew,
    \* history of the current iteration and session, of the retention
    \* buffer's inserts and of the run of iterations that read the privacy
    \* flag as true; privacy_at_read: the frame of the iteration was read
    \* with the privacy flag set, and the flag has stayed set since
    emitted, commands, handoff, sess, ended, matched, cancelled,
    error, ran, at_read, inserted, privacy_run, privacy_at_read, received,
    \* produced: the last RecordingStarted or RecordingEnd event and the last
    \* indicator command the listener has issued, over all iterations
    produced,
    \* the indicator: the command channel of ReSpeakerCommander and the state
    \* of the thread that runs respeaker_loop
    command_sender, respeaker

vars == <<recording_status, audio_buffer, last_human_speech_detected,
          wake_word_buffer, dismiss_keyword, privacy_mode_flag,
          audio_detector_data, detector_closed, audio_sample_sender,
          sample_closed, pc, ts_now, instant_now, audio_frame,
          keyword_index, clock,
          wallSkew, emitted, commands, handoff, sess, ended, matched,
          cancelled, error, ran, at_read, inserted, privacy_run,
          privacy_at_read, received, produced, command_sender,
          respeaker>>

\* ------------------------------------------------------------ data types
\* enum RecordingStatus { NotActive, Active(ActiveRecording) }
NotActive == [tag |-> "NotActive"]

ActiveRecording(ts, ww) ==
    [tag |-> "Active",
     recording_triggering_timestamp |-> ts,
     recording_triggering_wake_word |-> ww]

\* RecordingStatus::active
active(status) == status.tag = "Active"

\* messages.rs
\* Mutant: the event is built as WakeWordDetected whatever kind is asked.
WakeWordDetection_kind_lost(kind, ww, ts) ==
    [kind |-> "WakeWordDetected", wake_word |-> ww, timestamp |-> ts]

WakeWordDetection(kind, ww, ts) ==
    [kind |-> kind, wake_word |-> ww, timestamp |-> ts]

\* Mutant: the constructor ignores the reason it is given.
WakeWordDetectionEnd_reason_lost(ww, ts, reason) ==
    [kind |-> "RecordingEnd", wake_word |-> ww, timestamp |-> ts,
     reason |-> "Finished"]

WakeWordDetectionEnd(ww, ts, reason) ==
    [kind |-> "RecordingEnd", wake_word |-> ww, timestamp |-> ts,
     reason |-> reason]

\* Mutant: the event always says that no session is Active.
VoiceProbability_not_recording(p, ts, since, recording) ==
    [kind |-> "VoiceProbability", probability |-> p, timestamp |-> ts,
     time_since_last_human_ms |-> since, currently_recording |-> FALSE]

VoiceProbability(p, ts, since, recording) ==
    [kind |-> "VoiceProbability", probability |-> p, timestamp |-> ts,
     time_since_last_human_ms |-> since, currently_recording |-> recording]

AudioSample(data, ww, ts) ==
    [data |-> data, wake_word |-> ww, timestamp |-> ts]

\* Mutant: stop returns the status and leaves it in place.
stop_keeps(status) == status

\* RecordingStatus::stop leaves NotActive in place of the old status.
stop(status) == NotActive

\* Vec::clear on the session audio buffer.
clear(buffer) == <<>>

\* RecordingStatus::is_in_recording_initial_timeout.  The Option<bool> is
\* the set of its values: None is {}, Some(b) is {b}.  delta is
\* (trigger timestamp) - ts_now, as signed_duration_since computes it.
is_in_recording_initial_timeout(status, now_ts) ==
    IF active(status)
    THEN LET delta == status.recording_triggering_timestamp - now_ts
             timedout == delta > RECORDING_INITIAL_TIMEOUT
         IN  {timedout}
    ELSE {}

\* Mutant: the timeout check never ends a recording.
should_be_recording_always(status, last_speech, now, now_ts) == TRUE

\* Mutant: the silence test is elapsed <= timeout.
should_be_recording_lenient(status, last_speech, now, now_ts) ==
    LET by_silence == (now - last_speech) <= HUMAN_SPEECH_DETECTION_TIMEOUT
        initial == is_in_recording_initial_timeout(status, now_ts)
    IN  IF TRUE \in initial THEN TRUE ELSE by_silence

\* listener_loop, "Check timeout": Instant::elapsed is now - instant.
should_be_recording(status, last_speech, now, now_ts) ==
    LET by_silence == (now - last_speech) < HUMAN_SPEECH_DETECTION_TIMEOUT
        initial == is_in_recording_initial_timeout(status, now_ts)
    IN  IF TRUE \in initial THEN TRUE ELSE by_silence

\* Mutant: every match starts a recording.
starts_recording_always(status) == TRUE

\* listener_loop: "don't update wake word if we're already recording".
starts_recording(status) == ~active(status)

\* Mutant: the bump takes the wall-clock timestamp for the instant.
bump_to_timestamp(instant, timestamp) == timestamp

\* listener_loop, "also bump this to prevent going to sleep if human
\* detection is slow": last_human_speech_detected = instant_now.
bump(instant, timestamp) == instant

\* Mutant: the frame is buffered whatever the recording status.
extend_from_slice_always(buffer, status, frame) == Append(buffer, frame)

\* listener_loop, "Add sample to buffer".
extend_from_slice(buffer, status, frame) ==
    IF active(status) THEN Append(buffer, frame) ELSE buffer

\* Mutant: a probability equal to the threshold counts as speech.
human_speech_detected_at_threshold(voice_probability) ==
    voice_probability >= HUMAN_SPEECH_DETECTION_PROBABILITY_THRESHOLD

\* check_human_voice_probability: "Check human speech presence".
human_speech_detected(voice_probability) ==
    voice_probability > HUMAN_SPEECH_DETECTION_PROBABILITY_THRESHOLD

\* Mutant: the dismiss keyword is never recognised.
is_dismiss_never(dismiss, detected_wake_word) == FALSE

\* check_dismiss_keyword: Option::is_some_and(|d| d == detected_wake_word).
is_dismiss(dismiss, detected_wake_word) ==
    dismiss # NoKeyword /\ dismiss = detected_wake_word

\* Mutant: a closed channel is not noticed.
Closed_ignored(closed) == FALSE

\* send_event and finish_recording: try_send fails with
\* TrySendError::Closed exactly when the receiving half is gone, and only
\* that failure becomes an error of the loop.
Closed(closed) == closed

\* Mutant: the channel takes the message whatever its capacity.
try_send_unbounded(queue, cap, message) == Append(queue, message)

\* tokio mpsc Sender::try_send on an open channel of capacity cap: a full
\* channel drops the message (TrySendError::Full is not an error here).
try_send(queue, cap, message) ==
    IF Len(queue) < cap THEN Append(queue, message) ELSE queue

\* Mutant: the message is handed out and stays in the channel.
recv_keeps(queue) == queue

\* tokio mpsc Receiver::recv on a channel that holds a message: the oldest
\* message leaves the channel.
recv(queue) == Tail(queue)

\* Mutant: every age is taken to be zero.
checked_age_zero(now, time) == 0

\* AudioBuffer::insert: checked_duration_since(..).unwrap_or_default() is
\* the difference, or zero when `now` is the earlier instant.
checked_age(now, time) == IF now >= time THEN now - time ELSE 0

RECURSIVE drain_old(_, _)
drain_old(samples, now) ==
    IF samples # <<>> /\ checked_age(now, Head(samples).time)
                           > AUDIO_SAMPLE_RETENTION_PERIOD
    THEN drain_old(Tail(samples), now)
    ELSE samples

\* Mutant: the new entry is pushed at the front.
insert_front(samples, now, sample) ==
    <<[sample |-> sample, time |-> now]>> \o drain_old(samples, now)

\* Mutant: entries as old as the retention period are evicted too.
insert_strict(samples, now, sample) ==
    Append(SelectSeq(samples,
                     LAMBDA e : checked_age(now, e.time)
                                   < AUDIO_SAMPLE_RETENTION_PERIOD),
           [sample |-> sample, time |-> now])

\* Mutant: the frame is not stored.
insert_nothing(samples, now, sample) == samples

insert(samples, now, sample) ==
    Append(drain_old(samples, now), [sample |-> sample, time |-> now])

\* ------------------------------------------------------- history records
\* sess: the session now Active, as the listener's inputs define it: the
\* frame and the match that opened it, the frames that reached the append
\* step, the classifier matches, and the events offered for them.
NoSess == [trigger |-> 0, wake_word |-> "", timestamp |-> 0, frames |-> <<>>,
           matches |-> 0, started |-> 0, detected |-> 0, aborted |-> 0]
NoError == "Ok"

\* The events of `events` of one kind.
OfKind(events, kind) == SelectSeq(events, LAMBDA e : e.kind = kind)

NoEnd == [cause |-> "none"]
NoHandoff == [result |-> "none"]

\* received: the last event and the last sample taken out of the channels
\* by their consumers. The receipts are observed in the specification of
\* the sinks only (SinkSpec); elsewhere received stays Unobserved.
Unobserved == [observed |-> FALSE]
NoneReceived == [observed |-> TRUE,
                 event |-> [frame |-> 0, index |-> 0],
                 sample |-> AudioSample(<<>>, "", 0)]

\* What the event channel holds for an event. The listener's try_send
\* depends on how many events are queued, never on which, so an event is
\* queued as such; where the receipts are observed it is queued with the
\* frame of the iteration that offers it and its place among the events of
\* that iteration, `events` being those offered before it.
Queued(events) ==
    IF received.observed
    THEN [frame |-> audio_frame, index |-> Len(events) + 1]
    ELSE "event"

\* What a consumer's receipt of the oldest message of `queue` leaves in
\* the field `field` of received.
Receipt(field, queue) ==
    IF received.observed THEN [received EXCEPT ![field] = Head(queue)]
    ELSE received

\* The elements a step adds to a sequence.
NewOf(old, new) == SubSeq(new, Len(old) + 1, Len(new))

NoCommand == "(none)"
NothingProduced == [lifecycle |-> [kind |-> "(none)"], command |-> NoCommand]

\* What an event leaves in `produced`: RecordingStarted with its wake word
\* and timestamp, RecordingEnd as such.
Lifecycle(event) ==
    IF event.kind = "RecordingStarted"
    THEN [kind |-> event.kind, wake_word |-> event.wake_word,
          timestamp |-> event.timestamp]
    ELSE [kind |-> event.kind]

\* `produced` after a step that offered `events` and issued `issued`.
Issued(last, events, issued) ==
    LET cycle == SelectSeq(events,
                    LAMBDA e : e.kind \in {"RecordingStarted",
                                           "RecordingEnd"})
    IN  [lifecycle |-> IF cycle = <<>> THEN last.lifecycle
                       ELSE Lifecycle(cycle[Len(cycle)]),
         command |-> IF issued = <<>> THEN last.command
                     ELSE issued[Len(issued)]]

\* The thread of respeaker_loop holds the receiver of the command channel.
Receiving(loop) == loop \in {"find", "recv"}

\* Mutant: the command is queued whatever the state of the channel.
commander_send_unbounded(queue, loop, command) == Append(queue, command)

\* ReSpeakerCommander::off and ::listen: `_ = self.sender.try_send(..)` on
\* the sync_channel; a full channel and a dropped receiver both refuse the
\* command and the result is discarded.
commander_send(queue, loop, command) ==
    IF Receiving(loop) /\ Len(queue) < CommandCap
    THEN Append(queue, command)
    ELSE queue

\* The command channel after a step of the listener that issued `issued`
\* (one command at most).
Commanded(queue, loop, issued) ==
    IF issued = <<>> THEN queue
    ELSE commander_send(queue, loop, issued[1])

Range(s) == {s[i] : i \in DOMAIN s}

Constructed ==
    /\ recording_status = NotActive
    /\ audio_buffer = <<>>
    /\ last_human_speech_detected = 0
    /\ wake_word_buffer = <<>>
    /\ dismiss_keyword \in DismissChoices
    /\ privacy_mode_flag = FALSE
    /\ audio_detector_data = <<>>
    /\ detector_closed = FALSE
    /\ audio_sample_sender = <<>>
    /\ sample_closed = FALSE
    /\ pc = "loop"
    /\ ts_now = 0
    /\ instant_now = 0
    /\ audio_frame = 0
    /\ keyword_index = NoIndex
    /\ clock = 0
    /\ wallSkew = 0
    /\ emitted = <<>>
    /\ commands = <<>>
    /\ handoff = NoHandoff
    /\ sess = NoSess
    /\ ended = NoEnd
    /\ matched = NoKeyword
    /\ cancelled = {}
    /\ error = NoError
    /\ ran = <<>>
    /\ at_read = NotActive
    /\ inserted = <<>>
    /\ privacy_run = 0
    /\ privacy_at_read = FALSE
    /\ produced = NothingProduced
    /\ command_sender = <<>>

\* The listener is built with ReSpeakerCommander::dummy(): the receiver of
\* the command channel is dropped at once.
Init ==
    /\ Constructed
    /\ received = Unobserved
    /\ respeaker = "dummy"

\* The same start with the receipts of the consumers observed.
SinkInit ==
    /\ Constructed
    /\ received = NoneReceived
    /\ respeaker = "dummy"

\* The listener is built with the commander of start_respeaker_loop: the
\* thread of respeaker_loop is about to look for the device.
IndicatorInit ==
    /\ Constructed
    /\ received = Unobserved
    /\ respeaker = "find"

indicator == <<command_sender, respeaker>>

listenerFields == <<recording_status, audio_buffer,
                    last_human_speech_detected, wake_word_buffer>>
channels == <<audio_detector_data, detector_closed, audio_sample_sender,
              sample_closed>>
locals == <<ts_now, instant_now, audio_frame, keyword_index>>
environment == <<clock, wallSkew, privacy_mode_flag, dismiss_keyword>>
history == <<emitted, commands, handoff, sess, ended, matched, cancelled,
             error, ran, at_read, inserted, privacy_run>>

\* ------------------------------------------------------- listener_loop
\* Lines 160-164: take the two timestamps, block in recorder.read() for dt
\* seconds (the read returns at once, or stalls for MaxBlock seconds), insert
\* the frame into the retention buffer.
ReadFrame ==
    /\ pc = "loop"
    /\ audio_frame < MaxFrames
    /\ \E dt \in {0, MaxBlock} :
          /\ clock + dt <= MaxTime
          /\ clock' = clock + dt
    /\ ts_now' = clock - wallSkew
    /\ instant_now' = clock
    /\ audio_frame' = audio_frame + 1
    /\ keyword_index' = NoIndex
    /\ wake_word_buffer' = insert(wake_word_buffer, clock, audio_frame + 1)
    /\ inserted' = Append(inserted, [sample |-> audio_frame + 1,
                                     time |-> clock])
    /\ emitted' = <<>>
    /\ commands' = <<>>
    /\ handoff' = NoHandoff
    /\ ended' = NoEnd
    /\ matched' = NoKeyword
    /\ error' = NoError
    /\ ran' = <<"read">>
    /\ at_read' = recording_status
    /\ pc' = "privacy"
    /\ UNCHANGED <<recording_status, audio_buffer,
                   last_human_speech_detected, channels, wallSkew,
                   privacy_mode_flag, dismiss_keyword, sess, cancelled,
                   privacy_run>>
    /\ privacy_at_read' = privacy_mode_flag
    /\ UNCHANGED <<received, produced, indicator>>

\* Line 162: recorder.read() fails and listener_loop returns the error.
ReadFails ==
    /\ pc = "loop"
    /\ ts_now' = clock - wallSkew
    /\ instant_now' = clock
    /\ emitted' = <<>>
    /\ commands' = <<>>
    /\ handoff' = NoHandoff
    /\ ended' = NoEnd
    /\ matched' = NoKeyword
    /\ error' = "Failed to read audio frame"
    /\ ran' = <<>>
    /\ at_read' = recording_status
    /\ pc' = "failed"
    /\ keyword_index' = NoIndex
    /\ UNCHANGED <<listenerFields, channels, audio_frame, environment, sess,
                   cancelled, inserted, privacy_run,
                   privacy_at_read, received, produced,
                   indicator>>

\* Lines 166-170 with check_privacy_mode (241-260).
CheckPrivacyMode ==
    /\ pc = "privacy"
    /\ IF privacy_mode_flag
       THEN IF active(recording_status)
            THEN LET event == WakeWordDetectionEnd(
                        recording_status.recording_triggering_wake_word,
                        recording_status.recording_triggering_timestamp,
                        "PrivacyModeActivated")
                 IN  /\ recording_status' = stop(recording_status)
                     /\ emitted' = Append(emitted, event)
                     /\ ended' = [cause |-> "PrivacyModeActivated",
                                  session |-> sess]
                     /\ sess' = NoSess
                     /\ cancelled' = cancelled \cup Range(sess.frames)
                     /\ IF Closed(detector_closed)
                        THEN /\ pc' = "failed"
                             /\ error' = "Audio detector channel closed"
                             /\ UNCHANGED <<audio_buffer, commands,
                                            audio_detector_data>>
                        ELSE /\ audio_detector_data' =
                                   try_send(audio_detector_data, EventCap,
                                        Queued(emitted))
                             /\ audio_buffer' = clear(audio_buffer)
                             /\ commands' = Append(commands, "Off")
                             /\ pc' = "loop"
                             /\ UNCHANGED error
            ELSE /\ audio_buffer' = clear(audio_buffer)
                 /\ commands' = Append(commands, "Off")
                 /\ pc' = "loop"
                 /\ UNCHANGED <<recording_status, emitted, ended, sess,
                                cancelled, audio_detector_data, error>>
       ELSE /\ pc' = "detect"
            /\ UNCHANGED <<recording_status, audio_buffer, emitted, ended,
                           sess, cancelled, audio_detector_data, commands,
                           error>>
    /\ ran' = Append(ran, "privacy")
    /\ privacy_run' = IF privacy_mode_flag THEN privacy_run + 1 ELSE 0
    /\ UNCHANGED <<last_human_speech_detected, wake_word_buffer,
                   detector_closed, audio_sample_sender, sample_closed,
                   locals, environment, handoff, matched, at_read,
                   inserted, privacy_at_read, received, respeaker>>
    /\ produced' = Issued(produced, NewOf(emitted, emitted'),
                          NewOf(commands, commands'))
    /\ command_sender' = Commanded(command_sender, respeaker,
                                   NewOf(commands, commands'))

\* check_dismiss_keyword (262-295) returning true, and lines 177-178.
DismissDetected(detected_wake_word) ==
    LET was_active == active(recording_status)
        end_event == WakeWordDetectionEnd(
              recording_status.recording_triggering_wake_word,
              recording_status.recording_triggering_timestamp, "Dismissed")
        detection == WakeWordDetection("WakeWordDetected",
                                       detected_wake_word, ts_now)
        after_end == IF was_active
                     THEN try_send(audio_detector_data, EventCap,
                                   Queued(emitted))
                     ELSE audio_detector_data
        offered == IF was_active THEN Append(emitted, end_event) ELSE emitted
    IN  /\ recording_status' = stop(recording_status)
        /\ ended' = IF was_active
                    THEN [cause |-> "Dismissed", session |-> sess]
                    ELSE ended
        /\ sess' = NoSess
        /\ cancelled' = IF was_active
                        THEN cancelled \cup Range(sess.frames)
                        ELSE cancelled
        /\ IF Closed(detector_closed)
           THEN \* the first send_event fails
                /\ emitted' = IF was_active THEN offered
                              ELSE Append(emitted, detection)
                /\ audio_buffer' = IF was_active THEN audio_buffer
                                   ELSE clear(audio_buffer)
                /\ pc' = "failed"
                /\ error' = "Audio detector channel closed"
                /\ UNCHANGED <<audio_detector_data, commands>>
           ELSE /\ emitted' = Append(offered, detection)
                /\ audio_buffer' = clear(audio_buffer)
                /\ audio_detector_data' =
                      try_send(after_end, EventCap, Queued(offered))
                /\ commands' = Append(commands, "Off")
                /\ pc' = "loop"
                /\ UNCHANGED error
        /\ UNCHANGED last_human_speech_detected

\* Lines 181-205: a wake word that is not the dismiss keyword.
WakeWordDetected(detected_wake_word) ==
    LET starts == starts_recording(recording_status)
        started == WakeWordDetection("RecordingStarted",
                                     detected_wake_word, ts_now)
        detection == WakeWordDetection("WakeWordDetected",
                                       detected_wake_word, ts_now)
        after_start == IF starts
                       THEN try_send(audio_detector_data, EventCap,
                                     Queued(emitted))
                       ELSE audio_detector_data
        offered == IF starts THEN Append(emitted, started) ELSE emitted
        reached_detection == ~(starts /\ Closed(detector_closed))
    IN  /\ recording_status' =
              IF starts THEN ActiveRecording(ts_now, detected_wake_word)
              ELSE recording_status
        /\ commands' = IF starts THEN Append(commands, "Listen")
                       ELSE commands
        /\ last_human_speech_detected' =
              IF reached_detection THEN bump(instant_now, ts_now)
              ELSE last_human_speech_detected
        /\ emitted' = IF reached_detection THEN Append(offered, detection)
                      ELSE offered
        /\ sess' =
              LET opened == IF active(recording_status) THEN sess
                            ELSE [NoSess EXCEPT !.trigger = audio_frame,
                                                !.wake_word = detected_wake_word,
                                                !.timestamp = ts_now]
                  new == SubSeq(emitted', Len(emitted) + 1, Len(emitted'))
                  seen == Len(OfKind(new, "WakeWordDetected"))
              IN  [opened EXCEPT
                     !.matches = @ + 1,
                     !.started = @ + Len(OfKind(new, "RecordingStarted")),
                     !.detected = @ + seen,
                     !.aborted = @ + (1 - seen)]
        /\ IF Closed(detector_closed)
           THEN /\ pc' = "failed"
                /\ error' = "Audio detector channel closed"
                /\ UNCHANGED audio_detector_data
           ELSE /\ audio_detector_data' =
                      try_send(after_start, EventCap,
                               Queued(offered))
                /\ pc' = "vad"
                /\ UNCHANGED error
        /\ UNCHANGED <<audio_buffer, ended, cancelled>>

\* Mutant: an index outside the table is taken modulo the table's length.
get_wrapping(keywords, index) == keywords[(index % Len(keywords)) + 1]

\* detect_wake_word, lines 140-143: selected_keywords.get(index as usize)
\* is None (NoKeyword here) for an index outside the table.
get(keywords, index) ==
    IF index + 1 \in DOMAIN keywords THEN keywords[index + 1]
    ELSE NoKeyword

\* Lines 172-206 with detect_wake_word (130-148): porcupine reports the
\* index keyword_index, -1 for no wake word.
DetectWakeWord ==
    /\ pc = "detect"
    /\ \E index \in PorcupineIndices :
          /\ keyword_index' = index
          /\ IF index < 0
             THEN /\ pc' = "vad"
                  /\ matched' = NoKeyword
                  /\ UNCHANGED <<recording_status, audio_buffer,
                                 last_human_speech_detected, emitted, commands,
                                 sess, ended, cancelled, audio_detector_data,
                                 error>>
             ELSE IF get(selected_keywords, index) = NoKeyword
             THEN \* "Keyword index unknown"
                  /\ pc' = "failed"
                  /\ error' = "Keyword index unknown"
                  /\ matched' = NoKeyword
                  /\ UNCHANGED <<recording_status, audio_buffer,
                                 last_human_speech_detected, emitted, commands,
                                 sess, ended, cancelled, audio_detector_data>>
             ELSE LET wake_word == get(selected_keywords, index)
                  IN  /\ matched' = wake_word
                      /\ IF is_dismiss(dismiss_keyword, wake_word)
                         THEN DismissDetected(wake_word)
                         ELSE WakeWordDetected(wake_word)
    /\ ran' = Append(ran, "detect")
    /\ UNCHANGED <<wake_word_buffer, detector_closed, audio_sample_sender,
                   sample_closed, ts_now, instant_now, audio_frame,
                   environment, handoff, at_read,
                   inserted, privacy_run,
                   privacy_at_read, received, respeaker>>
    /\ produced' = Issued(produced, NewOf(emitted, emitted'),
                          NewOf(commands, commands'))
    /\ command_sender' = Commanded(command_sender, respeaker,
                                   NewOf(commands, commands'))

\* Line 134: porcupine.process fails.
PorcupineFails ==
    /\ pc = "detect"
    /\ pc' = "failed"
    /\ error' = "Failed to process audio frame"
    /\ ran' = Append(ran, "detect")
    /\ UNCHANGED <<listenerFields, channels, locals, environment, emitted,
                   commands, handoff, sess, ended, matched, cancelled,
                   at_read, inserted, privacy_run,
                   privacy_at_read, received, produced,
                   indicator>>

\* check_human_voice_probability (297-328).
CheckHumanVoiceProbability ==
    /\ pc = "vad"
    /\ \E voice_probability \in VoiceProbabilities :
          LET event == VoiceProbability(voice_probability, ts_now,
                            clock - last_human_speech_detected,
                            active(recording_status))
          IN  /\ emitted' = Append(emitted, event)
              /\ IF Closed(detector_closed)
                 THEN /\ pc' = "failed"
                      /\ error' = "Audio detector channel closed"
                      /\ UNCHANGED <<audio_detector_data,
                                     last_human_speech_detected>>
                 ELSE /\ audio_detector_data' =
                            try_send(audio_detector_data, EventCap,
                                     Queued(emitted))
                      /\ last_human_speech_detected' =
                            IF human_speech_detected(voice_probability)
                            THEN clock
                            ELSE last_human_speech_detected
                      /\ pc' = "timeout"
                      /\ UNCHANGED error
    /\ ran' = Append(ran, "vad")
    /\ UNCHANGED <<recording_status, audio_buffer, wake_word_buffer,
                   detector_closed, audio_sample_sender, sample_closed,
                   locals, environment, commands, handoff, sess, ended,
                   matched, cancelled, at_read, inserted, privacy_run,
                   privacy_at_read, received, produced,
                   indicator>>

\* Line 305: cobra.process fails.
CobraFails ==
    /\ pc = "vad"
    /\ pc' = "failed"
    /\ error' = "Cobra processing failed"
    /\ ran' = Append(ran, "vad")
    /\ UNCHANGED <<listenerFields, channels, locals, environment, emitted,
                   commands, handoff, sess, ended, matched, cancelled,
                   at_read, inserted, privacy_run,
                   privacy_at_read, received, produced,
                   indicator>>

\* finish_recording, lines 333-338: the sample built from the buffer and
\* the stopped status.
build_sample(buffer, status) ==
    AudioSample(buffer, status.recording_triggering_wake_word,
                status.recording_triggering_timestamp)

\* Lines 210-233 with finish_recording (331-355).
CheckTimeout ==
    /\ pc = "timeout"
    /\ LET was_active == active(recording_status)
           extended == extend_from_slice(audio_buffer, recording_status,
                                         audio_frame)
           session == IF was_active
                      THEN [sess EXCEPT !.frames = Append(@, audio_frame)]
                      ELSE sess
           continue == should_be_recording(recording_status,
                            last_human_speech_detected, clock, ts_now)
           audio_sample == build_sample(extended, recording_status)
           event == WakeWordDetectionEnd(
                 recording_status.recording_triggering_wake_word,
                 recording_status.recording_triggering_timestamp, "Finished")
       IN  IF was_active /\ ~continue
           THEN /\ recording_status' = stop(recording_status)
                /\ audio_buffer' = clear(extended)
                /\ ended' = [cause |-> "Finished", session |-> session]
                /\ sess' = NoSess
                /\ IF Closed(sample_closed)
                   THEN /\ handoff' = [result |-> "closed",
                                       sample |-> audio_sample]
                        /\ pc' = "failed"
                        /\ error' = "Audio sample channel closed"
                        /\ UNCHANGED <<audio_sample_sender, emitted,
                                       audio_detector_data, commands>>
                   ELSE /\ handoff' =
                              [result |-> IF Len(audio_sample_sender)
                                               < SampleCap
                                          THEN "delivered" ELSE "dropped",
                               sample |-> audio_sample]
                        /\ audio_sample_sender' =
                              try_send(audio_sample_sender, SampleCap,
                                       audio_sample)
                        /\ emitted' = Append(emitted, event)
                        /\ IF Closed(detector_closed)
                           THEN /\ pc' = "failed"
                                /\ error' = "Audio detector channel closed"
                                /\ UNCHANGED <<audio_detector_data,
                                               commands>>
                           ELSE /\ audio_detector_data' =
                                      try_send(audio_detector_data, EventCap,
                                        Queued(emitted))
                                /\ commands' = Append(commands, "Off")
                                /\ pc' = "loop"
                                /\ UNCHANGED error
           ELSE /\ audio_buffer' = extended
                /\ sess' = session
                /\ pc' = "loop"
                /\ UNCHANGED <<recording_status, ended, handoff,
                               audio_sample_sender, emitted,
                               audio_detector_data, commands, error>>
    /\ ran' = Append(ran, "timeout")
    /\ UNCHANGED <<last_human_speech_detected, wake_word_buffer,
                   detector_closed, sample_closed, locals, environment,
                   matched, cancelled, at_read, inserted, privacy_run,
                   privacy_at_read, received, respeaker>>
    /\ produced' = Issued(produced, NewOf(emitted, emitted'),
                          NewOf(commands, commands'))
    /\ command_sender' = Commanded(command_sender, respeaker,
                                   NewOf(commands, commands'))

\* ------------------------------------------------------------------ main
\* main.rs 297-304: the listener thread calls listener_loop again on the
\* same Listener after it returned an error.
Restart ==
    /\ pc = "failed"
    /\ pc' = "loop"
    /\ UNCHANGED <<listenerFields, channels, locals, environment, history,
                   privacy_at_read, received, produced,
                   indicator>>

\* main.rs 313-327: the privacy-mode subscriber, a task of its own, stores
\* the flag at any point of the listener's iteration (a store of the value
\* the flag already has changes nothing).
SetPrivacyMode ==
    /\ privacy_mode_flag' = ~privacy_mode_flag
    /\ UNCHANGED <<listenerFields, channels, pc, locals, clock, wallSkew,
                   dismiss_keyword, history>>
    /\ privacy_at_read' = FALSE
    /\ UNCHANGED <<received, produced, indicator>>

\* main.rs 458: start_event_publisher receives one event.
PublishEvent ==
    /\ ~detector_closed
    /\ audio_detector_data # <<>>
    /\ audio_detector_data' = recv(audio_detector_data)
    /\ received' = Receipt("event", audio_detector_data)
    /\ UNCHANGED <<listenerFields, detector_closed, audio_sample_sender,
                   sample_closed, pc, locals, environment, history,
                   privacy_at_read, produced,
                   indicator>>

\* main.rs 333-341: start_event_publisher returns and drops the receiver.
PublisherExits ==
    /\ ~detector_closed
    /\ detector_closed' = TRUE
    /\ audio_detector_data' = <<>>
    /\ UNCHANGED <<listenerFields, audio_sample_sender, sample_closed, pc,
                   locals, environment, history,
                   privacy_at_read, received, produced,
                   indicator>>

\* main.rs 355: the transcriber loop receives one sample.
TranscribeSample ==
    /\ ~sample_closed
    /\ audio_sample_sender # <<>>
    /\ audio_sample_sender' = recv(audio_sample_sender)
    /\ received' = Receipt("sample", audio_sample_sender)
    /\ UNCHANGED <<listenerFields, audio_detector_data, detector_closed,
                   sample_closed, pc, locals, environment, history,
                   privacy_at_read, produced,
                   indicator>>

\* main.rs 379-384: main leaves the transcriber loop with an error and the
\* sample receiver is dropped.
TranscriberExits ==
    /\ ~sample_closed
    /\ sample_closed' = TRUE
    /\ audio_sample_sender' = <<>>
    /\ UNCHANGED <<listenerFields, audio_detector_data, detector_closed, pc,
                   locals, environment, history,
                   privacy_at_read, received, produced,
                   indicator>>

\* The system clock is set back (chrono::Utc::now is not monotonic).
AdjustWallClock ==
    /\ pc = "loop"
    /\ wallSkew = 0
    /\ wallSkew' = MaxSkew
    /\ UNCHANGED <<listenerFields, channels, pc, locals, clock,
                   privacy_mode_flag, dismiss_keyword, history,
                   privacy_at_read, received, produced,
                   indicator>>

Next ==
    \/ ReadFrame
    \/ ReadFails
    \/ CheckPrivacyMode
    \/ DetectWakeWord
    \/ PorcupineFails
    \/ CheckHumanVoiceProbability
    \/ CobraFails
    \/ CheckTimeout
    \/ Restart
    \/ SetPrivacyMode
    \/ PublishEvent
    \/ PublisherExits
    \/ TranscribeSample
    \/ TranscriberExits
    \/ AdjustWallClock

Spec == Init /\ [][Next]_vars

\* ------------------------------------------- AudioBuffer on its own
\* AudioBuffer::insert called with any instant, as the tests of
\* wakeword_validation.rs call it; the instant of the call is `clock`.
InsertCall ==
    /\ audio_frame < MaxFrames
    /\ \E now \in 0..MaxTime :
          /\ wake_word_buffer' = insert(wake_word_buffer, now, audio_frame + 1)
          /\ inserted' = Append(inserted, [sample |-> audio_frame + 1,
                                           time |-> now])
          /\ clock' = now
    /\ audio_frame' = audio_frame + 1
    /\ UNCHANGED <<recording_status, audio_buffer,
                   last_human_speech_detected, dismiss_keyword,
                   privacy_mode_flag, channels, pc, ts_now, instant_now,
                   keyword_index, wallSkew, emitted, commands, handoff, sess, ended,
                   matched, cancelled, error, ran, at_read, privacy_run,
                   privacy_at_read, received, produced,
                   indicator>>

BufferNext == InsertCall

BufferSpec == Init /\ [][BufferNext]_vars

\* ------------------------------------------------------ a live listener
\* The frame source delivers a frame every MaxBlock seconds and neither it
\* nor the classifier nor the estimator fails.
ReadFrameSteady == ReadFrame /\ clock' = clock + MaxBlock

\* main.rs 288-305: the listener has a thread of its own that runs
\* listener_loop in a loop, so a step it can take is taken.
ListenerStep ==
    \/ ReadFrameSteady
    \/ CheckPrivacyMode
    \/ DetectWakeWord
    \/ CheckHumanVoiceProbability
    \/ CheckTimeout
    \/ Restart

LiveNext ==
    \/ ReadFrameSteady
    \/ CheckPrivacyMode
    \/ DetectWakeWord
    \/ CheckHumanVoiceProbability
    \/ CheckTimeout
    \/ Restart
    \/ SetPrivacyMode
    \/ PublishEvent
    \/ PublisherExits
    \/ TranscribeSample
    \/ TranscriberExits
    \/ AdjustWallClock

LiveSpec == Init /\ [][LiveNext]_vars /\ WF_vars(ListenerStep)

\* -------------------------------------------------- the sinks observed
\* The listener, its supervisor and the two consumers; the estimator may
\* fail and the publisher may exit, so that iterations fail and restart.
SinkNext ==
    \/ ReadFrame
    \/ CheckPrivacyMode
    \/ DetectWakeWord
    \/ CheckHumanVoiceProbability
    \/ CobraFails
    \/ CheckTimeout
    \/ Restart
    \/ SetPrivacyMode
    \/ PublishEvent
    \/ PublisherExits
    \/ TranscribeSample

SinkSpec == SinkInit /\ [][SinkNext]_vars

\* ------------------------------------------------------- indicator thread
\* respeaker.rs 238-281: the thread start_respeaker_loop spawns. respeaker
\* is its position: "find" at the top of run_respeaker, "recv" in the
\* receive loop, "exited" after respeaker_loop has returned and dropped the
\* receiver.
\* run_respeaker up to the receive loop (253-260, 276-281). find_usb_device
\* or pixel_ring.off() fails: run_respeaker returns Err and respeaker_loop
\* calls it again. No device: the thread sleeps 500 ms, run_respeaker
\* returns Ok(()) and `while let Err(..)` of respeaker_loop (247) ends.
FindDevice ==
    /\ respeaker = "find"
    /\ \E outcome \in {"found", "missing", "error"} :
          CASE outcome = "found" ->
                 /\ respeaker' = "recv"
                 /\ UNCHANGED command_sender
            [] outcome = "missing" ->
                 /\ respeaker' = "exited"
                 /\ command_sender' = <<>>
            [] outcome = "error" ->
                 UNCHANGED <<command_sender, respeaker>>
    /\ UNCHANGED <<listenerFields, channels, pc, locals, environment,
                   history, privacy_at_read, received, produced>>

\* Lines 262-273: a command is received and applied to the pixel ring; when
\* the ring operation fails run_respeaker returns Err and is called again.
ReceiveCommand ==
    /\ respeaker = "recv"
    /\ command_sender # <<>>
    /\ command_sender' = Tail(command_sender)
    /\ \E applied \in BOOLEAN :
          respeaker' = IF applied THEN "recv" ELSE "find"
    /\ UNCHANGED <<listenerFields, channels, pc, locals, environment,
                   history, privacy_at_read, received, produced>>

\* The listener with the indicator thread of start_respeaker_loop.
IndicatorNext ==
    \/ ReadFrame
    \/ CheckPrivacyMode
    \/ DetectWakeWord
    \/ CheckHumanVoiceProbability
    \/ CheckTimeout
    \/ Restart
    \/ SetPrivacyMode
    \/ PublisherExits
    \/ FindDevice
    \/ ReceiveCommand

IndicatorSpec == IndicatorInit /\ [][IndicatorNext]_vars

\* ------------------------------------------------------------- claims
Emitted(kind) == OfKind(emitted, kind)
FinishedEmitted ==
    \E i \in DOMAIN emitted :
        emitted[i].kind = "RecordingEnd" /\ emitted[i].reason = "Finished"
\* The events a step adds to the iteration's events.
NewEvents == SubSeq(emitted', Len(emitted) + 1, Len(emitted'))
Ended == active(recording_status) /\ ~active(recording_status')
\* The cause of a session's end, from the step that ends it.
CauseOf(step) ==
    CASE step = "privacy" -> "PrivacyModeActivated"
      [] step = "detect" -> "Dismissed"
      [] step = "timeout" -> "Finished"
      [] OTHER -> "none"
IterationOver == pc \in {"loop", "failed"}
DismissMatched ==
    /\ "detect" \in Range(ran)
    /\ dismiss_keyword # NoKeyword
    /\ matched = dismiss_keyword

\* C1: while a session is Active no step opens a second session or changes
\* the stored triggering wake word or trigger timestamp, and both are those
\* of the match that opened the session.
C1_SessionExclusivity ==
    /\ [](active(recording_status) =>
            /\ recording_status.recording_triggering_wake_word
                  = sess.wake_word
            /\ recording_status.recording_triggering_timestamp
                  = sess.timestamp)
    /\ [][active(recording_status) /\ active(recording_status')
            => /\ recording_status' = recording_status
               /\ sess'.trigger = sess.trigger]_vars

\* A different wake word matched while the session was Active.
C1_Witness ==
    /\ pc = "vad"
    /\ active(at_read)
    /\ active(recording_status)
    /\ matched # NoKeyword
    /\ matched # recording_status.recording_triggering_wake_word
    /\ sess.matches >= 2

\* C2: the sample built by finish_recording holds, in capture order and
\* once each, exactly the frames that reached the append step while the
\* session was Active, the last being the frame of the timeout; none is
\* older than the frame that opened the session.
C2_NoAudioLoss ==
    handoff.result # "none" =>
        LET data == handoff.sample.data
        IN  /\ ended.cause = "Finished"
            /\ data = ended.session.frames
            /\ data # <<>>
            /\ data[Len(data)] = audio_frame
            /\ \A i \in 1..(Len(data) - 1) : data[i] < data[i + 1]
            /\ \A i \in DOMAIN data : data[i] >= ended.session.trigger

\* A session of several frames was finished and its sample delivered.
C2_Witness ==
    /\ handoff.result = "delivered"
    /\ FinishedEmitted
    /\ Len(handoff.sample.data) >= 2

\* C3, as claimed: whenever RecordingEnded{Finished} is emitted the sample
\* is in the sample sink, whatever the state of the bounded sample channel.
C3_FinishedAlwaysDelivered ==
    FinishedEmitted => handoff.result = "delivered"

\* C3, amended: whenever RecordingEnded{Finished} is emitted the sample was
\* offered to the sample sink without blocking: it is queued when the
\* channel has room and dropped when the channel is full.
C3_DeliveredUnlessFull ==
    [][pc = "timeout" /\ FinishedEmitted' =>
          IF Len(audio_sample_sender) < SampleCap
          THEN /\ handoff'.result = "delivered"
               /\ audio_sample_sender'
                     = Append(audio_sample_sender, handoff'.sample)
          ELSE /\ handoff'.result = "dropped"
               /\ audio_sample_sender' = audio_sample_sender]_vars

\* A session was finished while the sample channel was full.
C3_Witness ==
    /\ FinishedEmitted
    /\ handoff.result = "dropped"
    /\ Len(audio_sample_sender) = SampleCap

\* C4: after an iteration that cancelled an Active session (privacy mode or
\* dismiss keyword) the audio buffer is empty, the session is Inactive, no
\* sample was handed off, and no queued sample holds a frame of a cancelled
\* session.
C4_CancellationClearsBuffer ==
    /\ (IterationOver /\ ended.cause \in {"PrivacyModeActivated", "Dismissed"})
          => /\ audio_buffer = <<>>
             /\ ~active(recording_status)
             /\ handoff.result = "none"
    /\ \A i \in DOMAIN audio_sample_sender :
          Range(audio_sample_sender[i].data) \cap cancelled = {}

\* C5: whenever the loop is about to read the next frame, the audio buffer
\* is empty if the session is Inactive.
C5_InactiveBufferEmpty ==
    (pc = "loop" /\ ~active(recording_status)) => audio_buffer = <<>>

\* C6, as claimed: every step that takes the session from Active to
\* Inactive emits exactly one RecordingEnded, with the reason of its cause,
\* and a sample is handed off only by such a step of cause Finished.
C6_OneEndPerTransition ==
    /\ [][Ended =>
            LET ends == OfKind(NewEvents, "RecordingEnd")
            IN  /\ Len(ends) = 1
                /\ ends[1].reason = CauseOf(pc)]_vars
    /\ [][handoff' # handoff /\ handoff'.result # "none"
            => Ended /\ CauseOf(pc) = "Finished"]_vars

\* C6, amended: the same, except that a Finished transition whose sample
\* meets a closed sample channel fails the loop and emits no RecordingEnded.
C6_OneEndUnlessSampleSinkClosed ==
    /\ [][Ended =>
            LET ends == OfKind(NewEvents, "RecordingEnd")
            IN  IF pc = "timeout" /\ sample_closed
                THEN /\ ends = <<>>
                     /\ error' = "Audio sample channel closed"
                ELSE /\ Len(ends) = 1
                     /\ ends[1].reason = CauseOf(pc)]_vars
    /\ [][handoff' # handoff /\ handoff'.result # "none"
            => Ended /\ CauseOf(pc) = "Finished"]_vars

\* A session was cancelled by privacy mode and its RecordingEnded emitted.
C6_Witness ==
    /\ ended.cause = "PrivacyModeActivated"
    /\ Len(Emitted("RecordingEnd")) = 1
    /\ error = NoError

\* The first event of the detect step was refused by the closed event sink
\* before WakeWordDetected was offered.
AbortedBeforeDetection ==
    /\ error = "Audio detector channel closed"
    /\ ran = <<"read", "privacy", "detect">>
    /\ emitted # <<>>
    /\ emitted[Len(emitted)].kind \in {"RecordingStarted", "RecordingEnd"}
\* The iteration took the session from Inactive to Active.
OpenedNow ==
    /\ ~active(at_read)
    /\ active(recording_status) \/ ended.cause = "Finished"

\* C7, as claimed: every matching frame emits WakeWordDetected once, the
\* RecordingStarted events of an iteration are as many as its transitions
\* from Inactive to Active, and a session that saw two matches has emitted
\* one RecordingStarted and two WakeWordDetected.
C7_RepeatedMatch ==
    /\ ("detect" \in Range(ran) /\ matched # NoKeyword)
          => Len(Emitted("WakeWordDetected")) = 1
    /\ "detect" \in Range(ran)
          => Len(Emitted("RecordingStarted")) = IF OpenedNow THEN 1 ELSE 0
    /\ (active(recording_status) /\ sess.matches = 2)
          => sess.started = 1 /\ sess.detected = 2

\* C7, amended: the same, except that a matching frame emits no
\* WakeWordDetected when the closed event sink has refused the
\* RecordingStarted or RecordingEnded that the same step sends first.
C7_RepeatedMatchUnlessSinkClosed ==
    /\ ("detect" \in Range(ran) /\ matched # NoKeyword)
          => Len(Emitted("WakeWordDetected"))
                = IF AbortedBeforeDetection THEN 0 ELSE 1
    /\ ("detect" \in Range(ran) /\ matched = NoKeyword)
          => Emitted("WakeWordDetected") = <<>>
    /\ "detect" \in Range(ran)
          => Len(Emitted("RecordingStarted")) = IF OpenedNow THEN 1 ELSE 0
    /\ active(recording_status)
          => /\ sess.started = 1
             /\ sess.detected + sess.aborted = sess.matches
    /\ (active(recording_status) /\ sess.matches = 2 /\ sess.aborted = 0)
          => sess.started = 1 /\ sess.detected = 2

\* The wake word that opened the session matched again on a later frame.
C7_Witness ==
    /\ pc = "vad"
    /\ active(at_read)
    /\ active(recording_status)
    /\ matched = recording_status.recording_triggering_wake_word
    /\ sess.matches = 2
    /\ sess.started = 1
    /\ sess.detected = 2

\* C8: a frame that matches the dismiss keyword while the session is
\* Inactive emits WakeWordDetected for the dismiss keyword and nothing else
\* (no RecordingStarted, RecordingEnded or VoiceProbability), leaves the
\* session Inactive and ends the iteration at the detect step.
C8_DismissWhileInactive ==
    (DismissMatched /\ ~active(at_read)) =>
        /\ emitted = <<[kind |-> "WakeWordDetected",
                        wake_word |-> dismiss_keyword,
                        timestamp |-> ts_now]>>
        /\ ~active(recording_status)
        /\ sess = NoSess
        /\ ended = NoEnd
        /\ ran = <<"read", "privacy", "detect">>
        /\ IterationOver

\* The dismiss keyword matched while Inactive and the iteration completed.
C8_Witness ==
    /\ DismissMatched
    /\ ~active(at_read)
    /\ pc = "loop"
    /\ error = NoError

\* What a dismiss of the Active session leaves, whatever it emitted.
DismissedState ==
    /\ ~active(recording_status)
    /\ ended.cause = "Dismissed"
    /\ audio_frame \notin Range(audio_buffer)
    /\ ran = <<"read", "privacy", "detect">>
    /\ IterationOver
DismissedEnd ==
    [kind |-> "RecordingEnd",
     wake_word |-> ended.session.wake_word,
     timestamp |-> ended.session.timestamp,
     reason |-> "Dismissed"]
DismissDetection ==
    [kind |-> "WakeWordDetected", wake_word |-> dismiss_keyword,
     timestamp |-> ts_now]

\* C9, as claimed: a frame that matches the dismiss keyword while the
\* session is Active emits RecordingEnded{Dismissed} with the session's
\* wake word and trigger timestamp, then WakeWordDetected for the dismiss
\* keyword; the session is Inactive, the frame is not buffered and the
\* voice-activity step is not run.
C9_DismissWhileActive ==
    (DismissMatched /\ active(at_read)) =>
        /\ DismissedState
        /\ emitted = <<DismissedEnd, DismissDetection>>

\* C9, amended: the same, except that when the event sink is closed the
\* iteration fails at the send the sink refuses and emits nothing after it:
\* RecordingEnded{Dismissed} is offered, WakeWordDetected is offered only
\* if the RecordingEnded was accepted.
C9_DismissWhileActiveUnlessSinkClosed ==
    (DismissMatched /\ active(at_read)) =>
        /\ DismissedState
        /\ IF error = NoError
           THEN emitted = <<DismissedEnd, DismissDetection>>
           ELSE /\ error = "Audio detector channel closed"
                /\ emitted \in {<<DismissedEnd>>,
                                <<DismissedEnd, DismissDetection>>}

\* The dismiss keyword ended an Active session and both events were sent.
C9_Witness ==
    /\ DismissMatched
    /\ active(at_read)
    /\ error = NoError
    /\ Len(emitted) = 2

\* C10: an iteration that reads the privacy flag as true while the session
\* is Active emits exactly one RecordingEnded{PrivacyModeActivated} with
\* the session's wake word and trigger timestamp, leaves the session
\* Inactive and the buffer empty, hands off no sample, sends Off to the
\* indicator and runs neither the classifier nor the estimator.
C10_PrivacyMidSession ==
    (active(at_read) /\ ran = <<"read", "privacy">> /\ IterationOver) =>
        /\ emitted = <<[kind |-> "RecordingEnd",
                        wake_word |-> at_read.recording_triggering_wake_word,
                        timestamp |-> at_read.recording_triggering_timestamp,
                        reason |-> "PrivacyModeActivated"]>>
        /\ ~active(recording_status)
        /\ audio_buffer = <<>>
        /\ handoff.result = "none"
        /\ commands = <<"Off">>

\* C11: from the first iteration that reads the privacy flag as true until
\* an iteration reads it as false, the session is Inactive and the audio
\* buffer empty, no WakeWordDetected, RecordingStarted or VoiceProbability
\* is emitted, and the only event is one RecordingEnded{PrivacyModeActivated},
\* on the first of these iterations and only if it found a session Active.
C11_PrivacyInterval ==
    privacy_run >= 1 =>
        /\ ~active(recording_status)
        /\ audio_buffer = <<>>
        /\ Len(emitted) <= 1
        /\ \A i \in DOMAIN emitted :
              /\ emitted[i].kind = "RecordingEnd"
              /\ emitted[i].reason = "PrivacyModeActivated"
        /\ emitted # <<>> => privacy_run = 1 /\ active(at_read)

\* C12: a session is never finished with reason Finished on a frame whose
\* timestamp is less than RECORDING_INITIAL_TIMEOUT after the session's
\* trigger timestamp.
C12_GracePeriod ==
    ended.cause = "Finished" =>
        ~(ts_now - ended.session.timestamp < RECORDING_INITIAL_TIMEOUT)

\* The timeout check of the current frame.
TimeoutCheck == pc = "timeout" /\ pc' # "timeout"
Elapsed == clock - last_human_speech_detected
InGracePeriod ==
    /\ active(recording_status)
    /\ ts_now - recording_status.recording_triggering_timestamp
          < RECORDING_INITIAL_TIMEOUT

\* C13: a session is finished with reason Finished only by a timeout check
\* that finds the time elapsed since the last human speech at least the
\* silence timeout, and a timeout check that finds the session Active, out
\* of its grace period and elapsed >= timeout finishes it in that iteration.
C13_SilenceTimeout ==
    /\ [][(ended' # ended /\ ended'.cause = "Finished") =>
             /\ TimeoutCheck
             /\ active(recording_status)
             /\ Elapsed >= HUMAN_SPEECH_DETECTION_TIMEOUT]_vars
    /\ [][(/\ TimeoutCheck
           /\ active(recording_status)
           /\ ~InGracePeriod
           /\ Elapsed >= HUMAN_SPEECH_DETECTION_TIMEOUT) =>
             /\ ended'.cause = "Finished"
             /\ ~active(recording_status')]_vars

\* A session out of its grace period was finished when the elapsed time was
\* exactly the silence timeout.
C13_Witness ==
    /\ ended.cause = "Finished"
    /\ pc = "loop"
    /\ ts_now - ended.session.timestamp >= RECORDING_INITIAL_TIMEOUT
    /\ Elapsed = HUMAN_SPEECH_DETECTION_TIMEOUT

\* The frame just read finds the session Active.
FrameOfActiveSession == pc = "privacy" /\ active(recording_status)
\* The frame in progress has matched no wake word and its voice probability
\* is not above the threshold; neither classifier nor estimator has failed.
Quiet ==
    /\ matched = NoKeyword
    /\ error \in {NoError, "Audio detector channel closed",
                  "Audio sample channel closed"}
    /\ \A i \in DOMAIN emitted :
          emitted[i].kind = "VoiceProbability"
             => ~human_speech_detected(emitted[i].probability)
SessionFinished == ~active(recording_status) /\ FinishedEmitted
SinksOpen == ~detector_closed /\ ~sample_closed

C15_LastSpeechNeverBackward ==
    [][last_human_speech_detected' >= last_human_speech_detected]_vars

\* A match has set last_human_speech_detected to the instant taken before
\* a read that blocked, on a frame after the first.
C15_Witness ==
    /\ pc = "vad"
    /\ matched # NoKeyword
    /\ audio_frame >= 2
    /\ last_human_speech_detected = instant_now
    /\ 0 < instant_now
    /\ instant_now < clock

\* The instants of the insert calls so far, and of the retained entries.
Instants(entries) == [i \in DOMAIN entries |-> entries[i].time]
NonDecreasing(instants) ==
    \A i \in 1..(Len(instants) - 1) : instants[i] <= instants[i + 1]
LastInserted == inserted[Len(inserted)]
WithinWindow ==
    \A i \in DOMAIN wake_word_buffer :
        LastInserted.time - wake_word_buffer[i].time
           <= AUDIO_SAMPLE_RETENTION_PERIOD

\* C16, as claimed: after insert(now, _), whatever the instants of the
\* calls, every retained entry has now - time <= the retention period.
C16_RetentionWindow ==
    inserted # <<>> => WithinWindow

\* C16, amended: the same for calls whose instants are non-decreasing.
C16_RetentionWindowOrderedCalls ==
    (inserted # <<>> /\ NonDecreasing(Instants(inserted))) => WithinWindow

\* An insert evicted all the earlier entries.
C16_Witness ==
    /\ Len(inserted) = 3
    /\ NonDecreasing(Instants(inserted))
    /\ Len(wake_word_buffer) = 1

\* C17, as claimed: after any sequence of insert calls the retained
\* entries are in non-decreasing order of their instants.
C17_RetentionOrdering ==
    NonDecreasing(Instants(wake_word_buffer))

\* C17, amended: the same for calls whose instants are non-decreasing.
C17_RetentionOrderingOrderedCalls ==
    NonDecreasing(Instants(inserted))
       => NonDecreasing(Instants(wake_word_buffer))

\* Three entries of increasing instants are retained.
C17_Witness ==
    /\ Len(wake_word_buffer) = 3
    /\ wake_word_buffer[1].time < wake_word_buffer[2].time
    /\ wake_word_buffer[2].time < wake_word_buffer[3].time

\* C18: for calls with non-decreasing instants, insert(now, s) leaves
\* exactly the entries it found whose age now - time is at most the
\* retention period, in their order, followed by the new entry.
C18_ExactEviction ==
    [][(inserted' # inserted /\ NonDecreasing(Instants(inserted'))) =>
          LET new == inserted'[Len(inserted')]
              kept == SelectSeq(wake_word_buffer,
                         LAMBDA e : new.time - e.time
                                       <= AUDIO_SAMPLE_RETENTION_PERIOD)
          IN  wake_word_buffer' = Append(kept, new)]_vars

\* An insert kept an entry exactly as old as the retention period and
\* evicted an older one.
C18_Witness ==
    /\ Len(inserted) = 3
    /\ NonDecreasing(Instants(inserted))
    /\ Len(wake_word_buffer) = 2
    /\ LastInserted.time - wake_word_buffer[1].time
          = AUDIO_SAMPLE_RETENTION_PERIOD

\* C19: the retained entries are the last entries inserted, in the order
\* of their insertion, the most recent last.
C19_FifoSuffix ==
    LET n == Len(inserted)
        k == Len(wake_word_buffer)
    IN  /\ k <= n
        /\ n > 0 => k > 0
        /\ wake_word_buffer = SubSeq(inserted, n - k + 1, n)

\* An eviction and calls out of order: the survivors keep their order.
C19_Witness ==
    /\ Len(inserted) = 3
    /\ Len(wake_word_buffer) = 2
    /\ ~NonDecreasing(Instants(inserted))

\* C20: every frame read is the last entry of the retention buffer, with
\* the instant taken before the read, before the privacy check and in
\* every later step of its iteration.
C20_EveryFrameRetained ==
    /\ Len(inserted) = audio_frame
    /\ \A i \in DOMAIN inserted : inserted[i].sample = i
    /\ audio_frame > 0 =>
          /\ wake_word_buffer # <<>>
          /\ wake_word_buffer[Len(wake_word_buffer)] = LastInserted
    /\ pc \in {"privacy", "detect", "vad", "timeout"} =>
          /\ wake_word_buffer # <<>>
          /\ wake_word_buffer[Len(wake_word_buffer)]
                = [sample |-> audio_frame, time |-> instant_now]

\* The frame of an iteration that privacy mode ended is retained while a
\* session is Active.
C20_Witness ==
    /\ pc = "privacy"
    /\ privacy_mode_flag
    /\ active(recording_status)
    /\ wake_word_buffer[Len(wake_word_buffer)].sample = audio_frame

\* ------------------------------------------------------------ the sinks
\* A sample is offered to the sample sink by this step.
SampleOffered == handoff' # handoff /\ handoff'.result # "none"

\* C21: an event offered to the open event sink while it is full leaves the
\* sink as it was, raises no error and does not stop the iteration, and the
\* transition the event reports is made all the same; a sample offered to
\* the open, full sample sink is dropped in the same way, the session
\* ending with its Finished event offered.
C21_FullSinkDrops ==
    [][ /\ ( /\ NewEvents # <<>>
             /\ ~detector_closed
             /\ Len(audio_detector_data) = EventCap )
           => /\ audio_detector_data' = audio_detector_data
              /\ error' = NoError
              /\ pc' # "failed"
              /\ \A i \in DOMAIN NewEvents :
                    /\ NewEvents[i].kind = "RecordingStarted"
                          => /\ active(recording_status')
                             /\ recording_status'.recording_triggering_wake_word
                                   = NewEvents[i].wake_word
                    /\ NewEvents[i].kind = "RecordingEnd"
                          => /\ Ended
                             /\ recording_status' = NotActive
        /\ ( /\ SampleOffered
             /\ ~sample_closed
             /\ Len(audio_sample_sender) = SampleCap )
           => /\ audio_sample_sender' = audio_sample_sender
              /\ handoff'.result = "dropped"
              /\ error' # "Audio sample channel closed"
              /\ Ended
              /\ audio_buffer' = <<>>
              /\ FinishedEmitted'
      ]_vars

\* An iteration that finished a session with both sinks full: the sample
\* was dropped, the events of the iteration outnumber the event sink's
\* capacity, and the iteration ended without error.
C21_Witness ==
    /\ pc = "loop"
    /\ error = NoError
    /\ handoff.result = "dropped"
    /\ FinishedEmitted
    /\ Len(emitted) > EventCap
    /\ ~active(recording_status)

\* C22: an event offered to the closed event sink, or a sample offered to
\* the closed sample sink, ends the iteration with that sink's error in the
\* same step: nothing more is offered by that step, and after the failure
\* the listener does nothing but start the loop again.
C22_ClosedSinkFatal ==
    [][ /\ (NewEvents # <<>> /\ detector_closed)
           => /\ pc' = "failed"
              /\ error' = "Audio detector channel closed"
              /\ Len(NewEvents) = 1
              /\ audio_detector_data' = audio_detector_data
        /\ (SampleOffered /\ sample_closed)
           => /\ pc' = "failed"
              /\ error' = "Audio sample channel closed"
              /\ handoff'.result = "closed"
              /\ NewEvents = <<>>
              /\ UNCHANGED <<audio_sample_sender, commands>>
        /\ pc = "failed"
           => /\ pc' \in {"failed", "loop"}
              /\ UNCHANGED <<listenerFields, locals, history>>
      ]_vars

\* The voice-probability event met the closed event sink: the iteration
\* failed in its voice-activity step and the time-out step did not run.
C22_Witness ==
    /\ pc = "failed"
    /\ error = "Audio detector channel closed"
    /\ detector_closed
    /\ ran = <<"read", "privacy", "detect", "vad">>
    /\ Len(Emitted("VoiceProbability")) = 1

\* ---------------------------------------------------- samples and restart
\* C24: a sample offered to the sample sink is not empty, for it holds at
\* least the frame that opened its session.
C24_SampleHoldsTrigger ==
    handoff.result # "none"
       => /\ handoff.sample.data # <<>>
          /\ ended.session.trigger \in Range(handoff.sample.data)

\* C25: when listener_loop is called again after a failed iteration the
\* session is Inactive and the audio buffer is empty.
C25_RestartDiscardsSession ==
    [][ (pc = "failed" /\ pc' = "loop")
           => /\ ~active(recording_status')
              /\ audio_buffer' = <<>>
      ]_vars

\* ------------------------------------------------- events of a session
\* A classifier match other than the session's own wake word, on the frame
\* of the iteration.
OtherWakeWord(session) ==
    matched # NoKeyword /\ matched # session.wake_word

\* C26: the sample and the RecordingEnd event of a session carry the wake
\* word and the timestamp of the match that opened it, whatever wake words
\* matched later in the session.
C26_OpeningMatchCarried ==
    ended.cause # "none"
       => /\ \A i \in DOMAIN emitted :
                emitted[i].kind = "RecordingEnd"
                   => /\ emitted[i].wake_word = ended.session.wake_word
                      /\ emitted[i].timestamp = ended.session.timestamp
                      /\ emitted[i].reason = ended.cause
          /\ handoff.result # "none"
                => /\ handoff.sample.wake_word = ended.session.wake_word
                   /\ handoff.sample.timestamp = ended.session.timestamp

\* A session opened by an earlier frame is finished on a frame that matched
\* another wake word at a later time; sample and event were both offered.
C26_Witness ==
    /\ ended.cause = "Finished"
    /\ OtherWakeWord(ended.session)
    /\ ts_now # ended.session.timestamp
    /\ ended.session.trigger < audio_frame
    /\ handoff.result = "delivered"
    /\ FinishedEmitted

\* The wake-word step of this iteration opened a session.
Triggered ==
    /\ "detect" \in Range(ran)
    /\ ~active(at_read)
    /\ matched # NoKeyword
    /\ ~DismissMatched

\* The events of the iteration up to and including its wake-word step.
TriggerEvents ==
    SelectSeq(emitted, LAMBDA e : e.kind \in {"RecordingStarted",
                                              "WakeWordDetected"})

\* An event of the wake-word step for the frame of this iteration.
OfThisFrame(event, kind) ==
    /\ event.kind = kind
    /\ event.wake_word = matched
    /\ event.timestamp = ts_now

\* C27 as stated: on the frame that opens a session WakeWordDetected is
\* emitted first and RecordingStarted after it.
C27_DetectedThenStarted ==
    Triggered
       => /\ Len(TriggerEvents) = 2
          /\ OfThisFrame(TriggerEvents[1], "WakeWordDetected")
          /\ OfThisFrame(TriggerEvents[2], "RecordingStarted")

\* C27 as the listener runs: on the frame that opens a session
\* RecordingStarted is emitted first and WakeWordDetected after it, both
\* with the wake word and timestamp of the frame and before any other
\* event of the iteration; when the event sink is closed RecordingStarted
\* is the only event and the iteration fails.
C27_StartedThenDetected ==
    Triggered
       => /\ emitted # <<>>
          /\ OfThisFrame(emitted[1], "RecordingStarted")
          /\ IF /\ error = "Audio detector channel closed"
                /\ ran = <<"read", "privacy", "detect">>
             THEN Len(emitted) = 1
             ELSE /\ Len(TriggerEvents) = 2
                  /\ Len(emitted) >= 2
                  /\ OfThisFrame(emitted[2], "WakeWordDetected")

\* A session was opened by this iteration and both events were offered.
C27_Witness ==
    /\ Triggered
    /\ pc = "vad"
    /\ active(recording_status)
    /\ Len(emitted) = 2
    /\ emitted[1].kind = "RecordingStarted"
    /\ emitted[2].kind = "WakeWordDetected"

\* ----------------------------------------------------- voice probability
\* The voice-activity step of the iteration, entered and left.
VoiceStep == pc = "vad" /\ pc' # "vad"

\* C28 as stated: every frame that privacy mode and the dismiss keyword did
\* not skip has exactly one VoiceProbability event by the end of its
\* iteration.
C28_OnePerFrame ==
    (IterationOver /\ "detect" \in Range(ran) /\ ~DismissMatched)
       => Len(Emitted("VoiceProbability")) = 1

\* C28 as the listener runs: the voice-activity step offers exactly one
\* VoiceProbability event unless the estimator fails; its session-active
\* field is the state the wake-word step left, its elapsed field is measured
\* against the last-human-speech instant as it was before this step, and its
\* timestamp is the frame's. No other step offers such an event, so a frame
\* has one if its iteration reached and passed the estimator, none otherwise.
C28_OnePerEstimatedFrame ==
    [][ /\ (VoiceStep /\ error' # "Cobra processing failed")
           => /\ Len(NewEvents) = 1
              /\ NewEvents[1].kind = "VoiceProbability"
              /\ NewEvents[1].currently_recording = active(recording_status)
              /\ NewEvents[1].time_since_last_human_ms
                    = clock - last_human_speech_detected
              /\ NewEvents[1].timestamp = ts_now
              /\ recording_status' = recording_status
        /\ (VoiceStep /\ error' = "Cobra processing failed")
           => NewEvents = <<>>
        /\ ~VoiceStep
           => \A i \in DOMAIN NewEvents :
                 NewEvents[i].kind # "VoiceProbability"
        /\ Len(OfKind(emitted', "VoiceProbability")) <= 1
      ]_vars

\* The frame that opened a session was heard as speech: the event says the
\* session is Active and gives the time since the match, not zero.
C28_Witness ==
    /\ pc = "timeout"
    /\ Triggered
    /\ Len(Emitted("VoiceProbability")) = 1
    /\ Emitted("VoiceProbability")[1].currently_recording
    /\ Emitted("VoiceProbability")[1].probability
          > HUMAN_SPEECH_DETECTION_PROBABILITY_THRESHOLD
    /\ last_human_speech_detected = clock
    /\ Emitted("VoiceProbability")[1].time_since_last_human_ms > 0

\* The wake-word step of the iteration reports a classifier match.
MatchStep == pc = "detect" /\ matched' # NoKeyword

\* The voice-activity step offers an event with a probability above the
\* threshold.
SpeechStep ==
    /\ VoiceStep
    /\ NewEvents # <<>>
    /\ NewEvents[1].probability
          > HUMAN_SPEECH_DETECTION_PROBABILITY_THRESHOLD

\* C29 as stated: the last-human-speech instant is set by a step exactly
\* when the step sees a voice probability above the threshold or a wake
\* word on the frame; a probability equal to the threshold does not set it.
C29_UpdatedIffSpeechOrMatch ==
    [][ /\ MatchStep => last_human_speech_detected' = instant_now
        /\ SpeechStep => last_human_speech_detected' = clock
        /\ last_human_speech_detected' # last_human_speech_detected
              => MatchStep \/ SpeechStep
      ]_vars

\* The match is the dismiss keyword.
DismissStep ==
    MatchStep /\ dismiss_keyword # NoKeyword /\ matched' = dismiss_keyword

\* C29 as the listener runs: a match of the dismiss keyword does not set
\* the instant, and neither does a match or a probability whose event the
\* closed event sink refused before the assignment was reached.
C29_UpdatedIffSpeechOrOtherMatch ==
    [][ /\ ( /\ MatchStep
             /\ ~DismissStep
             /\ ~(detector_closed /\ ~active(recording_status)) )
           => last_human_speech_detected' = instant_now
        /\ (SpeechStep /\ ~detector_closed)
           => last_human_speech_detected' = clock
        /\ last_human_speech_detected' # last_human_speech_detected
              => \/ MatchStep /\ ~DismissStep
                 \/ SpeechStep /\ ~detector_closed
        /\ ( \/ DismissStep
             \/ VoiceStep /\ ~SpeechStep
             \/ VoiceStep /\ detector_closed )
           => last_human_speech_detected' = last_human_speech_detected
      ]_vars

\* A probability equal to the threshold left the instant where an earlier
\* frame had put it, behind the clock.
C29_Witness ==
    /\ pc = "timeout"
    /\ Len(Emitted("VoiceProbability")) = 1
    /\ Emitted("VoiceProbability")[1].probability
          = HUMAN_SPEECH_DETECTION_PROBABILITY_THRESHOLD
    /\ matched = NoKeyword
    /\ Emitted("VoiceProbability")[1].time_since_last_human_ms > 0
    /\ last_human_speech_detected
          = clock - Emitted("VoiceProbability")[1].time_since_last_human_ms
    /\ last_human_speech_detected > 0

\* ---------------------------------------------------------- privacy race
\* The privacy check of the iteration, entered and left.
PrivacyStep == pc = "privacy" /\ pc' # "privacy"

\* The frame of the iteration was read after the flag was set, and the
\* privacy check has run on it.
CheckedInPrivacy ==
    privacy_at_read /\ privacy_mode_flag /\ pc # "privacy"

\* C30: with the flag stored by another thread at any point of an
\* iteration, the privacy check that finds the flag set ends an Active
\* session with cause PrivacyModeActivated and skips the rest of the
\* iteration; a frame read after the flag was set, the flag staying set, is
\* at that check or behind it, and then it was neither appended to the
\* audio buffer nor handed off and the session is Inactive. A session
\* Active with the flag set is therefore at most one frame read away from
\* its cancellation.
C30_PrivacyLatency ==
    [][ /\ (PrivacyStep /\ privacy_mode_flag)
           => /\ ~active(recording_status')
              /\ pc' \in {"loop", "failed"}
              /\ active(recording_status)
                    => ended'.cause = "PrivacyModeActivated"
        /\ CheckedInPrivacy'
           => /\ pc' \in {"loop", "failed"}
              /\ Range(ran') \subseteq {"read", "privacy"}
              /\ ~active(recording_status')
              /\ audio_frame' \notin Range(audio_buffer')
              /\ handoff' = NoHandoff
        /\ (privacy_mode_flag' /\ active(recording_status'))
           => \/ pc' = "privacy"
              \/ ~privacy_at_read'
      ]_vars

\* The flag was stored while a session was Active and the listener was
\* past the privacy check of a frame; that frame was appended, the next
\* frame was read with the flag set and its privacy check ended the session.
C30_Witness ==
    /\ CheckedInPrivacy
    /\ pc = "loop"
    /\ ended.cause = "PrivacyModeActivated"
    /\ Len(ended.session.frames) >= 1
    /\ audio_frame - 1 \in Range(ended.session.frames)
    /\ audio_buffer = <<>>
    /\ error = NoError

\* ------------------------------------------------------- order in sinks
\* Event a was offered before event b.
Before(a, b) ==
    \/ a.frame < b.frame
    \/ a.frame = b.frame /\ a.index < b.index

\* The event has been offered by the listener.
Offered(e) ==
    /\ e.frame >= 1
    /\ e.index >= 1
    /\ \/ e.frame < audio_frame
       \/ e.frame = audio_frame /\ e.index <= Len(emitted)

\* The frame of the iteration that handed the sample off: its last frame.
SampleFrame(sample) ==
    IF sample.data = <<>> THEN 0 ELSE sample.data[Len(sample.data)]

\* The messages of a channel are in the order given by `earlier`.
InOrder(queue, earlier(_, _)) ==
    \A i, j \in DOMAIN queue : i < j => earlier(queue[i], queue[j])

SampleBefore(a, b) == SampleFrame(a) < SampleFrame(b)

\* Each channel holds offered messages in the order of offering, all of
\* them later than the last message received from it.
ChannelsInOrder ==
    /\ InOrder(audio_detector_data, Before)
    /\ \A i \in DOMAIN audio_detector_data :
          /\ Offered(audio_detector_data[i])
          /\ Before(received.event, audio_detector_data[i])
    /\ InOrder(audio_sample_sender, SampleBefore)
    /\ \A i \in DOMAIN audio_sample_sender :
          /\ SampleFrame(audio_sample_sender[i]) \in 1..audio_frame
          /\ SampleBefore(received.sample, audio_sample_sender[i])

\* A consumer receives the oldest message of its channel, later than its
\* last receipt, and the message leaves the channel; a sample that the
\* channel accepts goes to its end.
ReceiptsInOrder ==
    /\ received'.event # received.event
          => /\ audio_detector_data # <<>>
             /\ received'.event = Head(audio_detector_data)
             /\ audio_detector_data' = Tail(audio_detector_data)
             /\ Before(received.event, received'.event)
    /\ received'.sample # received.sample
          => /\ audio_sample_sender # <<>>
             /\ received'.sample = Head(audio_sample_sender)
             /\ audio_sample_sender' = Tail(audio_sample_sender)
             /\ SampleBefore(received.sample, received'.sample)
    /\ SampleOffered
          => /\ SampleFrame(handoff'.sample) = audio_frame
             /\ handoff'.result = "delivered"
                   => audio_sample_sender'
                         = Append(audio_sample_sender, handoff'.sample)

SinkErrors == {"Audio detector channel closed", "Audio sample channel closed"}

\* The iteration failed because a sink is closed.
SinkFailure == pc = "failed" /\ error \in SinkErrors

\* C31: after an iteration failed on a closed sink the listener reads and
\* processes no further frame: the loop is not entered again, and no frame is
\* read while the error of the last iteration is that of a closed sink.
C31_StopsAfterSinkClosed ==
    [][ /\ SinkFailure => pc' = "failed"
        /\ (pc = "loop" /\ error \in SinkErrors)
              => audio_frame' = audio_frame
      ]_vars

\* The step of the iteration that ran last.
LastStep == IF ran = <<>> THEN "none" ELSE ran[Len(ran)]

\* The iteration failed on a closed sink inside check_privacy_mode,
\* check_dismiss_keyword or finish_recording.
FailedEndingSession ==
    /\ SinkFailure
    /\ \/ LastStep = "privacy"
       \/ LastStep = "detect" /\ DismissMatched
       \/ LastStep = "timeout"

\* C32: when check_privacy_mode, check_dismiss_keyword or finish_recording
\* fails on a closed sink, the session is Inactive and the audio buffer is
\* empty.
C32_ErrorPathConsistency ==
    FailedEndingSession
       => /\ ~active(recording_status)
          /\ audio_buffer = <<>>

\* ------------------------------------------------------ session lifecycle
\* The RecordingStarted and RecordingEnd events a step offers.
NewLifecycle ==
    SelectSeq(NewEvents, LAMBDA e : e.kind \in {"RecordingStarted",
                                                "RecordingEnd"})

\* A RecordingEnd event closes the RecordingStarted event produced last.
ClosesLast(event) ==
    /\ produced.lifecycle.kind = "RecordingStarted"
    /\ event.wake_word = produced.lifecycle.wake_word
    /\ event.timestamp = produced.lifecycle.timestamp

Finishing == pc = "timeout" /\ Ended

\* C34: when a session finishes, its sample is offered to the sample sink
\* before RecordingEnded{Finished} is offered to the event sink: every
\* Finished event comes with the offer of the sample of its session, the
\* sample is offered even when the event is then refused by the closed event
\* sink, and when the sample channel is closed no RecordingEnded is emitted
\* for the session.
C34_SampleBeforeFinished ==
    [][ /\ \A i \in DOMAIN NewEvents :
              (NewEvents[i].kind = "RecordingEnd"
                  /\ NewEvents[i].reason = "Finished")
              => /\ Finishing
                 /\ SampleOffered
                 /\ handoff'.result \in {"delivered", "dropped"}
                 /\ handoff'.sample.wake_word = NewEvents[i].wake_word
                 /\ handoff'.sample.timestamp = NewEvents[i].timestamp
        /\ (Finishing /\ ~sample_closed)
              => /\ SampleOffered
                 /\ handoff'.result \in {"delivered", "dropped"}
                 /\ Len(NewEvents) = 1
        /\ (Finishing /\ sample_closed)
              => /\ NewEvents = <<>>
                 /\ produced' = produced
                 /\ audio_detector_data' = audio_detector_data
      ]_vars

\* A session finished with the sample channel closed and the event channel
\* open: the iteration failed at the sample and the last lifecycle event
\* produced is still the session's RecordingStarted.
C34_Witness ==
    /\ ended.cause = "Finished"
    /\ handoff.result = "closed"
    /\ sample_closed
    /\ ~detector_closed
    /\ ~FinishedEmitted
    /\ produced.lifecycle.kind = "RecordingStarted"
    /\ produced.lifecycle.timestamp = ended.session.timestamp

\* ------------------------------------------------------- dismiss keyword
\* C35: with a dismiss keyword configured, the triggering wake word of an
\* Active session differs from it, and no RecordingStarted event and no
\* sample names it as the wake word.
C35_DismissNeverOpens ==
    dismiss_keyword # NoKeyword =>
        /\ active(recording_status) =>
              recording_status.recording_triggering_wake_word
                  # dismiss_keyword
        /\ \A i \in DOMAIN emitted :
              emitted[i].kind = "RecordingStarted"
                  => emitted[i].wake_word # dismiss_keyword
        /\ produced.lifecycle.kind = "RecordingStarted"
              => produced.lifecycle.wake_word # dismiss_keyword
        /\ handoff.result # "none"
              => handoff.sample.wake_word # dismiss_keyword
        /\ \A i \in DOMAIN audio_sample_sender :
              audio_sample_sender[i].wake_word # dismiss_keyword

\* The dismiss keyword was matched while no session was Active: the
\* iteration is over, its WakeWordDetected event is out and the listener is
\* still Inactive.
C35_Witness ==
    /\ DismissMatched
    /\ ~active(at_read)
    /\ pc = "loop"
    /\ error = NoError
    /\ ~active(recording_status)
    /\ Len(Emitted("WakeWordDetected")) = 1
    /\ Emitted("RecordingStarted") = <<>>

\* --------------------------------------------------------------- indicator
\* C36: between iterations the last indicator command issued is Listen
\* exactly when a session is Active.
C36_IndicatorTracksSession ==
    pc = "loop" => (produced.command = "Listen"
                        <=> active(recording_status))

\* The indicator commands a step issues.
NewCommands == NewOf(commands, commands')

\* The command queue takes no command: it is full, or its receiver is gone.
Refusing == ~Receiving(respeaker) \/ Len(command_sender) >= CommandCap

\* C37: a command issued while the command queue is full or its consumer
\* thread has exited is dropped silently, and one issued otherwise is
\* queued; in both cases the step that issues it is taken, fails only on a
\* closed sink, and makes the same transition: Listen with the session
\* opened and RecordingStarted offered, Off with the listener Inactive, the
\* session buffer empty and the iteration over.
C37_CommandsBestEffort ==
    [][ NewCommands # <<>> =>
          /\ Len(NewCommands) = 1
          /\ IF Refusing
             THEN command_sender' = command_sender
             ELSE command_sender' = Append(command_sender, NewCommands[1])
          /\ respeaker' = respeaker
          /\ produced'.command = NewCommands[1]
          /\ pc' = "failed" => error' \in SinkErrors /\ detector_closed
          /\ NewCommands[1] = "Listen"
                => /\ ~active(recording_status)
                   /\ active(recording_status')
                   /\ Len(OfKind(NewEvents, "RecordingStarted")) = 1
          /\ NewCommands[1] = "Off"
                => /\ ~active(recording_status')
                   /\ audio_buffer' = <<>>
                   /\ pc' = "loop"
                   /\ error' = error
      ]_vars

\* The last command issued is not the last one in the full queue of the
\* running indicator thread: it was dropped, and the iteration that issued
\* it went on without an error.
C37_Witness ==
    /\ respeaker = "recv"
    /\ Len(command_sender) = CommandCap
    /\ produced.command # NoCommand
    /\ command_sender[CommandCap] # produced.command
    /\ error = NoError

\* C38: the indicator thread keeps running when no ReSpeaker device is
\* found: it exits only when the command channel is closed, and the
\* listener holds the sending half for as long as it runs.
C38_IndicatorKeepsRunning == respeaker # "exited"

\* ------------------------------------------------------- keyword index
\* detect_wake_word has the index of porcupine for the frame.
Reported ==
    /\ pc = "detect"
    /\ pc' # pc
    /\ ~(pc' = "failed" /\ error' = "Failed to process audio frame")

\* C39: a negative index is no match and the iteration goes on to the voice
\* estimate; an index of the keyword table is a match of the keyword at
\* that index; an index outside the table is neither a match nor ignored:
\* the iteration fails with "Keyword index unknown", with no event, no
\* command and no change of the session.
C39_KeywordIndex ==
    [][ Reported =>
          IF keyword_index' < 0
          THEN /\ matched' = NoKeyword
               /\ pc' = "vad"
               /\ NewEvents = <<>>
               /\ NewCommands = <<>>
               /\ error' = error
               /\ UNCHANGED <<recording_status, audio_buffer,
                              last_human_speech_detected>>
          ELSE IF keyword_index' < Len(selected_keywords)
          THEN /\ matched' = selected_keywords[keyword_index' + 1]
               /\ NewEvents # <<>>
               /\ \A i \in DOMAIN NewEvents :
                     NewEvents[i].kind = "WakeWordDetected"
                         => NewEvents[i].wake_word
                               = selected_keywords[keyword_index' + 1]
               /\ pc' = "failed"
                     => error' = "Audio detector channel closed"
          ELSE /\ pc' = "failed"
               /\ error' = "Keyword index unknown"
               /\ matched' = NoKeyword
               /\ NewEvents = <<>>
               /\ NewCommands = <<>>
               /\ UNCHANGED <<recording_status, audio_buffer,
                              last_human_speech_detected>>
      ]_vars

\* Porcupine reported an index one past the keyword table while a session
\* was Active: the loop has returned the error and the session is as it was.
C39_Witness ==
    /\ pc = "failed"
    /\ error = "Keyword index unknown"
    /\ keyword_index = Len(selected_keywords)
    /\ active(recording_status)
    /\ recording_status = at_read
    /\ emitted = <<>>

====
